---------------------------- MODULE Spec2Model ----------------------------
(***************************************************************************)
(* Model of the parallel strategy execution subsystem                      *)
(* (src/src/execution/ParallelExecutor.ts).                                *)
(*                                                                         *)
(* One executeStrategies call on one ParallelExecutor is modelled on the   *)
(* JavaScript event loop: an action is one run-to-completion turn, i.e.    *)
(* the synchronous code between two suspension points together with the    *)
(* microtask continuations it triggers.  Timers are macrotasks, so the     *)
(* timeout callback can only run while a phase delegate is in flight.      *)
(*                                                                         *)
(* Numbers: accuracies and losses are in thousandths (0.95 is 950).        *)
(***************************************************************************)
EXTENDS Integers, Sequences, FiniteSets, TLC

(* ------------------------------ bounds -------------------------------- *)

\* largest number of plans handed to executeStrategies
MaxPlans == 3

\* largest value of options.maxConcurrent
MaxConcurrent == 2

\* largest number of plans when the delegates are arbitrary
MaxPlansAny == 1

\* largest item list handed to createBatches on its own
MaxItems == 7

\* largest batch size handed to createBatches on its own
MaxBatchSize == 4

\* largest result list handed to compareStrategies on its own
MaxResults == 3

\* largest number of plans of the calls checked for termination
MaxPlansLive == 2

\* calls made on one agent
MaxAgentCalls == 3

(* ------------------------- program constants -------------------------- *)

\* options.maxConcurrent when the caller gives none
DefaultMaxConcurrent == 3

\* the accuracy at which early stop fires (0.95)
EarlyStopAccuracy == 950

\* the loss of a failure result; larger than every loss a delegate reports
Infinity == 1000000

\* progress of the "running" event of executePhase
RunningProgress == 25

\* progress of a "completed" event
CompletedProgress == 100

PhaseNames == <<"data", "model", "training", "evaluation">>

\* the error thrown after a phase that resolved with success = false
PhaseFailedMessage == <<"Data processing failed", "Model design failed", "Training failed">>

AbortedMessage == "Execution aborted"

UnknownErrorMessage == "Unknown error"

\* message of the TypeError raised by reading a property of undefined
TypeErrorMessage == "Cannot read properties of undefined"

\* message of the Error a delegate rejects with
DelegateErrorMessage == "delegate error"

(* ------------------------------ inputs -------------------------------- *)

\* strategyId of the i-th plan of the call (distinct ids, none equal to a position)
StrategyId(i) == 100 + i

Ids == { StrategyId(i) : i \in 1..MaxPlans }

\* accuracies an evaluation delegate may report (below / at the threshold)
Accuracies == {940, 950}

\* losses an evaluation delegate may report
Losses == {234}

\* training times a training delegate may report
TrainingTimes == {80}

\* values calculateModelSize may return (Math.round(Math.random() * 50 + 10))
ModelSizes == {10, 60}

\* What a phase delegate (agent.execute) may settle with: an AgentResult
\* {success, data?} or a rejection with an Error or with something else.
AgentResult(success, hasData, accuracy, loss, trainingTime) ==
  [kind |-> "resolve", success |-> success, hasData |-> hasData,
   accuracy |-> accuracy, loss |-> loss, trainingTime |-> trainingTime,
   isError |-> FALSE]

Rejection(isError) ==
  [kind |-> "reject", success |-> FALSE, hasData |-> FALSE,
   accuracy |-> 0, loss |-> 0, trainingTime |-> 0, isError |-> isError]

NoAgentResult ==
  [kind |-> "none", success |-> FALSE, hasData |-> FALSE,
   accuracy |-> 0, loss |-> 0, trainingTime |-> 0, isError |-> FALSE]


\* the task types executeSingleStrategy submits in its four phases
TaskTypes == <<"preprocess", "design", "train", "evaluate">>

\* the one task type DataAgent, ModelAgent and TrainingAgent handle
HandledTaskTypes == <<"process_data", "build_model", "train_model">>

\* throw new Error(`Unknown task type: ${task.type}`)
UnknownTaskTypeMessage(taskType) == "Unknown task type: " \o taskType

\* what a handler of the repository's agents resolves with: {success: true,
\* data} or, EvaluationAgent apart, {success: false, error}
Handled(p) ==
  IF p = 4
  THEN { AgentResult(TRUE, TRUE, 925, 234, 0) }
  ELSE { AgentResult(TRUE, TRUE, 0, 0, IF p = 3 THEN 80 ELSE 0),
         AgentResult(FALSE, FALSE, 0, 0, 0) }

\* onExecute handling whatever task type it is given (variant that C30 must
\* detect)
onExecuteHandlesAll(p, taskType) == Handled(p)

\* onExecute of the repository's agent of phase p, as BaseAgent.execute
\* passes it on: DataAgent, ModelAgent and TrainingAgent handle one task
\* type and throw on any other, EvaluationAgent handles every task
onExecute(p, taskType) ==
  IF p = 4 \/ taskType = HandledTaskTypes[p] THEN Handled(p) ELSE { Rejection(TRUE) }

(* ------------------------------- state -------------------------------- *)

VARIABLES
  plans,               \* argument: the strategyIds of the plans, in input order
  optMaxConcurrent,    \* argument: <<>> (option absent) or <<k>>
  earlyStopOnSuccess,  \* argument: options.earlyStopOnSuccess
  agents,              \* the delegates behind the four agents: "regular", "any",
                       \* "repository" (the agents the constructor wires in)
  callState,           \* executeStrategies: "idle", "running", "returned"
                       \* ("rejected" has no transition: the code has no throw
                       \* outside the runs; "batched": createBatches on its own)
  batches,             \* local of executeStrategies
  batchIndex,          \* the batch the for loop is at (0 before the loop)
  results,             \* local of executeStrategies, returned at the end
  activeExecutions,    \* the registry: strategyIds that have a controller in the Map
  runs,                \* per strategyId: the executeSingleStrategy invocation
  comparison,          \* the compareStrategies call made on results, if any
  comparisonAgain,     \* a second compareStrategies call on the same list, if any
  other,               \* a second executeStrategies call on the same executor, if any
  agent                \* a BaseAgent: its fields and the calls made on it

inputs == <<plans, optMaxConcurrent, earlyStopOnSuccess, agents>>

vars == <<inputs, callState, batches, batchIndex, results, activeExecutions, runs,
          comparison, comparisonAgain, other, agent>>

\* the outcomes a delegate of phase p (1..4) may settle with.  Regular
\* delegates resolve with {success: true, data}, resolve with {success: false}
\* or reject with an Error; arbitrary ones may also resolve with success and
\* no data, with data and no success, or reject with something else.
Outcomes(p) ==
  IF agents = "repository" THEN onExecute(p, TaskTypes[p]) ELSE
  { AgentResult(TRUE, TRUE,
                IF p = 4 THEN a ELSE 0, IF p = 4 THEN l ELSE 0,
                IF p = 3 THEN t ELSE 0)
      : a \in Accuracies, l \in Losses, t \in TrainingTimes }
  \cup { AgentResult(FALSE, FALSE, 0, 0, 0), Rejection(TRUE) }
  \cup IF agents = "any"
       THEN { AgentResult(TRUE, FALSE, 0, 0, 0),
              AgentResult(FALSE, TRUE,
                          IF p = 4 THEN 950 ELSE 0, IF p = 4 THEN 234 ELSE 0,
                          IF p = 3 THEN 80 ELSE 0),
              Rejection(FALSE) }
       ELSE {}

(* ------------------------- ExecutionResult ---------------------------- *)

Metrics(accuracy, loss, trainingTime, modelSize) ==
  [accuracy |-> accuracy, loss |-> loss,
   trainingTime |-> trainingTime, modelSize |-> modelSize]

\* FailureMetrics with a finite loss (variant that C4 must detect)
FailureMetricsZeroLoss == Metrics(0, 0, 0, 0)

\* the finalMetrics literal of a failure result
FailureMetrics == Metrics(0, Infinity, 0, 0)

\* the failure result literal of the catch block (no model key)
FailureResult(strategyId, message) ==
  [strategyId |-> strategyId, success |-> FALSE, finalMetrics |-> FailureMetrics,
   model |-> "absent", error |-> message]

\* SuccessResult reading the training time off the evaluation output (variant
\* that C13 must detect)
SuccessResultEvalTime(strategyId, evalResult, trainingResult, modelSize) ==
  [strategyId |-> strategyId, success |-> TRUE,
   finalMetrics |-> Metrics(evalResult.accuracy, evalResult.loss,
                            evalResult.trainingTime, modelSize),
   model |-> "model", error |-> "absent"]

\* the success result literal (no error key)
SuccessResult(strategyId, evalResult, trainingResult, modelSize) ==
  [strategyId |-> strategyId, success |-> TRUE,
   finalMetrics |-> Metrics(evalResult.accuracy, evalResult.loss,
                            trainingResult.trainingTime, modelSize),
   model |-> "model", error |-> "absent"]

NoResult ==
  [strategyId |-> 0, success |-> FALSE, finalMetrics |-> Metrics(0, 0, 0, 0),
   model |-> "absent", error |-> "absent"]

(* ----------------------- executeSingleStrategy ------------------------ *)

\* a thrown value: an Error with a message, or something else
Error(message) == [isError |-> TRUE, message |-> message]

NotAnError == [isError |-> FALSE, message |-> "absent"]

\* an executeSingleStrategy invocation that has not been made
NoRun ==
  [status |-> "unstarted", pending |-> {}, calls |-> <<>>, events |-> <<>>,
   aborted |-> FALSE, timer |-> "none",
   dataResult |-> NoAgentResult, trainingResult |-> NoAgentResult,
   value |-> NoResult, reason |-> NotAnError]

emitProgress(r, phase, progress, status) ==
  [r EXCEPT !.events = Append(@, [phase |-> phase, progress |-> progress,
                                   status |-> status])]

\* a timer is armed or not: one that has fired or was cleared is no timer
clearTimeout(r) == [r EXCEPT !.timer = "none"]

\* the promise of the invocation settles; its locals (the phase results and
\* the abortController, which the registry no longer holds) are gone
Settle(r, status, value, reason) ==
  [r EXCEPT !.status = status, !.value = value, !.reason = reason,
            !.pending = {}, !.aborted = FALSE,
            !.dataResult = NoAgentResult, !.trainingResult = NoAgentResult]

\* error instanceof Error ? error.message : 'Unknown error'
errorMessage(error) ==
  IF error.isError THEN error.message ELSE UnknownErrorMessage

\* catchBlock rethrowing what it caught (variant that C3 must detect)
catchBlockRethrows(r, s, error) ==
  Settle(emitProgress(clearTimeout(r), "evaluation", 0, "failed"),
         "rejected", NoResult, error)

\* catchBlock awaiting something that never settles after the "failed"
\* event (variant that C26 must detect)
catchBlockNeverSettles(r, s, error) ==
  [emitProgress(clearTimeout(r), "evaluation", 0, "failed") EXCEPT !.pending = {}]

\* the catch block: clear the timer, emit "failed", return the failure result
catchBlock(r, s, error) ==
  Settle(emitProgress(clearTimeout(r), "evaluation", 0, "failed"),
         "fulfilled", FailureResult(s, errorMessage(error)), NotAnError)

\* how a piece of executePhase ends: it throws, it awaits the executor, or
\* it returns the executor's result
Throws(r, error) ==
  [state |-> "thrown", run |-> r, error |-> error, result |-> NoAgentResult]

Awaits(r) ==
  [state |-> "awaiting", run |-> r, error |-> NotAnError, result |-> NoAgentResult]

Returns(r, result) ==
  [state |-> "returned", run |-> r, error |-> NotAnError, result |-> result]

\* the message of the Error the delegate of phase p rejects with
rejectionMessage(p) ==
  IF agents = "repository" THEN UnknownTaskTypeMessage(TaskTypes[p])
                           ELSE DelegateErrorMessage

\* the task literal of phase p reads a property of an undefined payload
\* (trainingResult.data.model, dataResult.data.test)
executorThrows(r, p) ==
  p = 4 /\ (~r.trainingResult.hasData \/ ~r.dataResult.hasData)

\* executePhase without the token check (variant that C9 must detect)
executePhaseIgnoresToken(r, p) ==
  LET e == emitProgress(r, PhaseNames[p], RunningProgress, "running")
  IN IF executorThrows(e, p)
     THEN Throws(e, Error(TypeErrorMessage))
     ELSE Awaits([e EXCEPT !.pending = @ \cup {p}, !.calls = Append(@, p)])

\* executePhase checking the token after the "running" event (variant that
\* C10 must detect)
executePhaseEmitsFirst(r, p) ==
  LET e == emitProgress(r, PhaseNames[p], RunningProgress, "running")
  IN IF r.aborted
     THEN Throws(e, Error(AbortedMessage))
     ELSE IF executorThrows(e, p)
          THEN Throws(e, Error(TypeErrorMessage))
          ELSE Awaits([e EXCEPT !.pending = @ \cup {p}, !.calls = Append(@, p)])

\* executePhase up to its await: the token check, the "running" event, the
\* call of the executor
executePhase(r, p) ==
  IF r.aborted
  THEN Throws(r, Error(AbortedMessage))
  ELSE LET e == emitProgress(r, PhaseNames[p], RunningProgress, "running")
       IN IF executorThrows(e, p)
          THEN Throws(e, Error(TypeErrorMessage))
          ELSE Awaits([e EXCEPT !.pending = @ \cup {p}, !.calls = Append(@, p)])

\* executePhaseResume publishing "completed" in a finally block, also when
\* the executor raised (variant that C16 must detect)
executePhaseResumeAlwaysCompletes(r, p, o) ==
  LET r0 == emitProgress([r EXCEPT !.pending = @ \ {p}],
                         PhaseNames[p], CompletedProgress, "completed")
  IN IF o.kind = "reject"
     THEN Throws(r0, IF o.isError THEN Error(rejectionMessage(p)) ELSE NotAnError)
     ELSE Returns(r0, o)

\* executePhase after its await, the executor having settled with o
executePhaseResume(r, p, o) ==
  LET r0 == [r EXCEPT !.pending = @ \ {p}]
  IN IF o.kind = "reject"
     THEN Throws(r0, IF o.isError THEN Error(rejectionMessage(p)) ELSE NotAnError)
     ELSE Returns(emitProgress(r0, PhaseNames[p], CompletedProgress, "completed"), o)

\* the try block calls executePhase for phase p; what it throws is caught
enterPhase(r, s, p) ==
  LET x == executePhase(r, p)
  IN IF x.state = "thrown" THEN catchBlock(x.run, s, x.error) ELSE x.run

\* executeSingleStrategy up to its first await: the timer, the start event,
\* the data phase
executeSingleStrategy(s) ==
  enterPhase(
    emitProgress([NoRun EXCEPT !.status = "running", !.timer = "armed"],
                 "data", 0, "running"),
    s, 1)

\* the end of the try block, after the evaluation phase returned
completeStrategy(r, s, evalResult, modelSize) ==
  LET c == clearTimeout(r)
  IN IF ~evalResult.hasData
     THEN catchBlock(c, s, Error(TypeErrorMessage))
     ELSE Settle(emitProgress(c, "evaluation", CompletedProgress, "completed"),
                 "fulfilled",
                 SuccessResult(s, evalResult, c.trainingResult, modelSize),
                 NotAnError)

\* afterPhase going from the data phase straight to the training phase
\* (variant that C5 must detect)
afterPhaseSkipsModel(r, s, p, o, modelSize) ==
  LET r1 == [r EXCEPT !.dataResult = IF p = 1 THEN o ELSE @,
                      !.trainingResult = IF p = 3 THEN o ELSE @]
  IN IF p = 4
     THEN completeStrategy(r1, s, o, modelSize)
     ELSE IF ~o.success
          THEN catchBlock(r1, s, Error(PhaseFailedMessage[p]))
          ELSE enterPhase(r1, s, IF p = 1 THEN 3 ELSE p + 1)

\* the try block after phase p returned o: the success test and the next
\* phase, or the end of the try block
afterPhase(r, s, p, o, modelSize) ==
  LET r1 == [r EXCEPT !.dataResult = IF p = 1 THEN o ELSE @,
                      !.trainingResult = IF p = 3 THEN o ELSE @]
  IN IF p = 4
     THEN completeStrategy(r1, s, o, modelSize)
     ELSE IF ~o.success
          THEN catchBlock(r1, s, Error(PhaseFailedMessage[p]))
          ELSE enterPhase(r1, s, p + 1)

\* the continuation after the delegate of phase p settled with o: the rest
\* of executePhase, then executeSingleStrategy up to its next await or its end
resumeStrategy(r, s, p, o, modelSize) ==
  LET x == executePhaseResume(r, p, o)
  IN IF x.state = "thrown"
     THEN catchBlock(x.run, s, x.error)
     ELSE afterPhase(x.run, s, p, x.result, modelSize)

Settled(r) == r.status \in {"fulfilled", "rejected"}

\* registryAfter deleting the entry on the success exit only (variant that
\* C11 must detect)
registryAfterKeepsFailed(registry, s, r) ==
  IF Settled(r) /\ r.value.success THEN registry \ {s} ELSE registry \cup {s}

\* the registry after the invocation of s moved to r: set at the start,
\* deleted on both exits
registryAfter(registry, s, r) ==
  IF Settled(r) THEN registry \ {s} ELSE registry \cup {s}

(* -------------------------- executeStrategies ------------------------- *)

Min(a, b) == IF a < b THEN a ELSE b

\* items.slice(from, to), from and to counted from 0
slice(items, from, to) == SubSeq(items, from + 1, Min(to, Len(items)))

RECURSIVE createBatchesFromStepOne(_, _, _)
\* createBatchesFrom advancing by one instead of batchSize (variant that C7
\* must detect)
createBatchesFromStepOne(items, batchSize, i) ==
  IF i < Len(items)
  THEN <<slice(items, i, i + batchSize)>>
       \o createBatchesFromStepOne(items, batchSize, i + 1)
  ELSE <<>>

RECURSIVE createBatchesFrom(_, _, _)
\* the for loop of createBatches, at index i
createBatchesFrom(items, batchSize, i) ==
  IF i < Len(items)
  THEN <<slice(items, i, i + batchSize)>>
       \o createBatchesFrom(items, batchSize, i + batchSize)
  ELSE <<>>

createBatches(items, batchSize) == createBatchesFrom(items, batchSize, 0)

\* maxConcurrent cutting batches one plan larger than the option (variant
\* that C23 must detect)
maxConcurrentPlusOne ==
  IF optMaxConcurrent = <<>> THEN DefaultMaxConcurrent ELSE optMaxConcurrent[1] + 1

\* the destructuring default of options.maxConcurrent
maxConcurrent ==
  IF optMaxConcurrent = <<>> THEN DefaultMaxConcurrent ELSE optMaxConcurrent[1]

Range(seq) == { seq[i] : i \in 1..Len(seq) }

\* allSettled resolving with the first settled promise (variant that C6
\* must detect)
anySettled(batch) == \E s \in Range(batch) : Settled(runs[s])

\* allSettled resolving as soon as the first promise of the batch has
\* settled (variant that C25 must detect)
firstSettled(batch) == Settled(runs[batch[1]])

\* Promise.allSettled(batchPromises) has resolved
allSettled(batch) == \A s \in Range(batch) : Settled(runs[s])

\* earlyStop with a strict comparison (variant that C8 must detect)
earlyStopStrict(value) ==
  earlyStopOnSuccess /\ value.success
  /\ value.finalMetrics.accuracy > EarlyStopAccuracy

\* earlyStop not reading the option (variant that C24 must detect)
earlyStopIgnoresOption(value) ==
  value.success /\ value.finalMetrics.accuracy >= EarlyStopAccuracy

\* the early stop test on a fulfilled result
earlyStop(value) ==
  earlyStopOnSuccess /\ value.success
  /\ value.finalMetrics.accuracy >= EarlyStopAccuracy

\* the result pushed for a rejected promise:
\* error: result.reason?.message || 'Unknown error'
RejectedResult(strategyId, reason) ==
  [strategyId |-> strategyId, success |-> FALSE,
   finalMetrics |-> Metrics(0, Infinity, 0, 0),
   model |-> "absent",
   error |-> IF reason.message = "absent" THEN UnknownErrorMessage
                                          ELSE reason.message]

RECURSIVE collectUnshift(_, _, _)
\* collect adding each result at the front of results (variant that C1 must
\* detect)
collectUnshift(batch, i, acc) ==
  IF i > Len(batch)
  THEN [results |-> acc, stopped |-> FALSE]
  ELSE LET r == runs[batch[i]]
       IN IF r.status = "fulfilled"
          THEN IF earlyStop(r.value)
               THEN [results |-> <<r.value>> \o acc, stopped |-> TRUE]
               ELSE collectUnshift(batch, i + 1, <<r.value>> \o acc)
          ELSE collectUnshift(batch, i + 1,
                              <<RejectedResult(batch[i], r.reason)>> \o acc)

RECURSIVE collectSkipsFailures(_, _, _)
\* collect pushing successful results only (variant that C2 must detect)
collectSkipsFailures(batch, i, acc) ==
  IF i > Len(batch)
  THEN [results |-> acc, stopped |-> FALSE]
  ELSE LET r == runs[batch[i]]
       IN IF r.status = "fulfilled" /\ r.value.success
          THEN IF earlyStop(r.value)
               THEN [results |-> Append(acc, r.value), stopped |-> TRUE]
               ELSE collectSkipsFailures(batch, i + 1, Append(acc, r.value))
          ELSE collectSkipsFailures(batch, i + 1, acc)

RECURSIVE collect(_, _, _)
\* the loop over batchResults from index i (from 1) on, acc being results:
\* the results array afterwards and whether the loop returned early
collect(batch, i, acc) ==
  IF i > Len(batch)
  THEN [results |-> acc, stopped |-> FALSE]
  ELSE LET r == runs[batch[i]]
       IN IF r.status = "fulfilled"
          THEN IF earlyStop(r.value)
               THEN [results |-> Append(acc, r.value), stopped |-> TRUE]
               ELSE collect(batch, i + 1, Append(acc, r.value))
          ELSE collect(batch, i + 1,
                       Append(acc, RejectedResult(batch[i], r.reason)))

\* batch.map(plan => executeSingleStrategy(plan, ...)): every invocation of
\* the batch runs up to its first await
launch(batch) ==
  /\ runs' = [s \in Ids |-> IF s \in Range(batch)
                            THEN executeSingleStrategy(s) ELSE runs[s]]
  /\ activeExecutions' =
       (activeExecutions \ { s \in Range(batch) : Settled(executeSingleStrategy(s)) })
       \cup { s \in Range(batch) : ~Settled(executeSingleStrategy(s)) }

\* cancelRemainingExecutions: abort every registered controller, clear the Map
cancelRemainingExecutions ==
  /\ runs' = [s \in Ids |-> IF s \in activeExecutions
                            THEN [runs[s] EXCEPT !.aborted = TRUE] ELSE runs[s]]
  /\ activeExecutions' = {}

\* the call of executeStrategies, up to its first await (or its return when
\* there is no batch)
ExecuteStrategies ==
  /\ callState = "idle"
  /\ batches' = createBatches(plans, maxConcurrent)
  /\ results' = <<>>
  /\ IF Len(batches') = 0
     THEN /\ callState' = "returned"
          /\ UNCHANGED <<batchIndex, runs, activeExecutions>>
     ELSE /\ callState' = "running"
          /\ batchIndex' = 1
          /\ launch(batches'[1])
  /\ UNCHANGED <<inputs, comparison, comparisonAgain, other, agent>>

\* the delegate of a phase in flight settles and the strategy goes on
DelegateSettles(s) ==
  /\ runs[s].status = "running"
  /\ \E p \in runs[s].pending : \E o \in Outcomes(p) : \E modelSize \in ModelSizes :
       LET r == resumeStrategy(runs[s], s, p, o, modelSize)
       IN /\ runs' = [runs EXCEPT ![s] = r]
          /\ activeExecutions' = registryAfter(activeExecutions, s, r)
  /\ UNCHANGED <<inputs, callState, batches, batchIndex, results, comparison, comparisonAgain, other, agent>>

\* the setTimeout callback of a strategy runs: abortController.abort()
TimeoutFires(s) ==
  /\ runs[s].timer = "armed"
  /\ runs' = [runs EXCEPT ![s].aborted = TRUE, ![s].timer = "none"]
  /\ UNCHANGED <<inputs, callState, batches, batchIndex, results, activeExecutions,
                 comparison, comparisonAgain, other, agent>>

\* the continuation of await Promise.allSettled: the early stop return
BatchEarlyStop ==
  /\ callState = "running"
  /\ allSettled(batches[batchIndex])
  /\ LET c == collect(batches[batchIndex], 1, results)
     IN /\ c.stopped
        /\ results' = c.results
        /\ cancelRemainingExecutions
        /\ callState' = "returned"
  /\ UNCHANGED <<inputs, batches, batchIndex, comparison, comparisonAgain, other, agent>>

\* the continuation of await Promise.allSettled: on to the next batch
BatchNext ==
  /\ callState = "running"
  /\ allSettled(batches[batchIndex])
  /\ batchIndex < Len(batches)
  /\ LET c == collect(batches[batchIndex], 1, results)
     IN /\ ~c.stopped
        /\ results' = c.results
  /\ batchIndex' = batchIndex + 1
  /\ launch(batches[batchIndex + 1])
  /\ UNCHANGED <<inputs, callState, batches, comparison, comparisonAgain, other, agent>>

\* the continuation of await Promise.allSettled: the last batch, return results
BatchLast ==
  /\ callState = "running"
  /\ allSettled(batches[batchIndex])
  /\ batchIndex = Len(batches)
  /\ LET c == collect(batches[batchIndex], 1, results)
     IN /\ ~c.stopped
        /\ results' = c.results
  /\ callState' = "returned"
  /\ UNCHANGED <<inputs, batches, batchIndex, activeExecutions, runs, comparison, comparisonAgain, other, agent>>

(* -------------------------- compareStrategies ------------------------- *)

\* the tolerance of the comparator (0.01)
Tolerance == 10

\* the accuracy the first recommendation tests best against (0.95)
TargetAccuracy == 950

NoSuccessfulMessage == "No successful strategies to compare"

\* The lower accuracies a (thousandths, from 0.813 on) for which the doubles
\* a/1000 and (a+10)/1000 differ by 0.009999999999999898; for every other
\* one from 0.813 on they differ by 0.010000000000000009.
RoundedDownDifferences == 928..937

\* Math.abs(a - b) > 0.01 on the doubles of two accuracies from 0.813 on
exceedsTolerance(a, b) ==
  LET d == IF a >= b THEN a - b ELSE b - a
  IN IF d = Tolerance
     THEN Min(a, b) \notin RoundedDownDifferences
     ELSE d > Tolerance

\* the comparator handed to sort: negative when a goes first
compare(a, b) ==
  IF exceedsTolerance(a.finalMetrics.accuracy, b.finalMetrics.accuracy)
  THEN b.finalMetrics.accuracy - a.finalMetrics.accuracy
  ELSE a.finalMetrics.trainingTime - b.finalMetrics.trainingTime

\* list with x put in after its first k elements
insertAt(list, k, x) ==
  SubSeq(list, 1, k) \o <<x>> \o SubSeq(list, k + 1, Len(list))

RECURSIVE insertLinear(_, _, _)
\* the inner loop of an insertion sort: x moves down from position j + 1
\* while the element before it compares greater
insertLinear(sorted, x, j) ==
  IF j = 0 \/ compare(sorted[j], x) <= 0
  THEN insertAt(sorted, j, x)
  ELSE insertLinear(sorted, x, j - 1)

RECURSIVE insertBinary(_, _, _, _)
\* the inner loop of a binary insertion sort: the pivot x goes to the
\* position the bisection of [left, right) (counted from 0) ends at
insertBinary(sorted, x, left, right) ==
  IF left >= right
  THEN insertAt(sorted, left, x)
  ELSE LET mid == left + ((right - left) \div 2)
       IN IF compare(x, sorted[mid + 1]) < 0
          THEN insertBinary(sorted, x, left, mid)
          ELSE insertBinary(sorted, x, mid + 1, right)

RECURSIVE runEnd(_, _, _)
\* the last position of the run that starts the list: strictly descending,
\* or else non-descending, up to the element at idx that breaks it
runEnd(list, descending, idx) ==
  IF idx > Len(list)
  THEN Len(list)
  ELSE LET order == compare(list[idx], list[idx - 1])
       IN IF (descending /\ order >= 0) \/ (~descending /\ order < 0)
          THEN idx - 1
          ELSE runEnd(list, descending, idx + 1)

Reverse(list) == [i \in 1..Len(list) |-> list[Len(list) + 1 - i]]

RECURSIVE sortFrom(_, _, _, _)
\* the outer loop of the sorts: the elements from position i on are put
\* into sorted one by one
sortFrom(engine, list, i, sorted) ==
  IF i > Len(list)
  THEN sorted
  ELSE sortFrom(engine, list, i + 1,
                IF engine = "timsort"
                THEN insertBinary(sorted, list[i], 0, Len(sorted))
                ELSE insertLinear(sorted, list[i], Len(sorted)))

\* the builds of Array.prototype.sort on a short array: an insertion sort,
\* or the first run (reversed when descending) followed by a binary insertion
\* sort of the rest
Engines == {"insertion", "timsort"}

\* Array.prototype.sort with the comparator, on a copy
sort(engine, list) ==
  IF engine = "timsort" /\ Len(list) >= 2
  THEN LET descending == compare(list[2], list[1]) < 0
           n   == runEnd(list, descending, 3)
           run == SubSeq(list, 1, n)
       IN sortFrom(engine, list, n + 1, IF descending THEN Reverse(run) ELSE run)
  ELSE sortFrom(engine, list, 1, <<>>)

\* filter keeping every result (variant that C18 must detect)
filterKeepsAll(list) == list

\* [...results].filter(r => r.success)
filter(list) == SelectSeq(list, LAMBDA r : r.success)

\* the reduce callbacks with non-strict comparisons (variant that C20 must
\* detect)
betterOrEqual(curr, prev, key) ==
  CASE key = "accuracy"     -> curr.finalMetrics.accuracy >= prev.finalMetrics.accuracy
    [] key = "trainingTime" -> curr.finalMetrics.trainingTime <= prev.finalMetrics.trainingTime
    [] key = "modelSize"    -> curr.finalMetrics.modelSize <= prev.finalMetrics.modelSize

\* the tests of the three reduce callbacks: curr replaces prev
better(curr, prev, key) ==
  CASE key = "accuracy"     -> curr.finalMetrics.accuracy > prev.finalMetrics.accuracy
    [] key = "trainingTime" -> curr.finalMetrics.trainingTime < prev.finalMetrics.trainingTime
    [] key = "modelSize"    -> curr.finalMetrics.modelSize < prev.finalMetrics.modelSize

RECURSIVE reduceFrom(_, _, _, _)
\* ranked.reduce without initial value, at index i (from 1) with accumulator prev
reduceFrom(ranked, key, i, prev) ==
  IF i > Len(ranked)
  THEN prev
  ELSE reduceFrom(ranked, key, i + 1,
                  IF better(ranked[i], prev, key) THEN ranked[i] ELSE prev)

reduce(ranked, key) == reduceFrom(ranked, key, 2, ranked[1])

\* Math.round(x / y) for x >= 0 and y > 0
round(x, y) == (2 * x + y) \div (2 * y)

\* a recommendation: what it says, the strategyIds it names, the factor
Recommendation(kind, strategyIds, factor) ==
  [kind |-> kind, strategyIds |-> strategyIds, factor |-> factor]

\* recommendations testing sizeWinner against accuracyWinner instead of best
\* (variant that C21 must detect)
recommendationsSizeVsAccuracy(best, accuracyWinner, speedWinner, sizeWinner) ==
  <<IF best.finalMetrics.accuracy >= TargetAccuracy
    THEN Recommendation("target achieved", <<>>, 0)
    ELSE Recommendation("target not met", <<>>, 0)>>
  \o (IF speedWinner.strategyId # accuracyWinner.strategyId
      THEN <<Recommendation("speed trade-off",
                            <<accuracyWinner.strategyId, speedWinner.strategyId>>,
                            round(accuracyWinner.finalMetrics.trainingTime,
                                  speedWinner.finalMetrics.trainingTime))>>
      ELSE <<>>)
  \o (IF sizeWinner.strategyId # accuracyWinner.strategyId
      THEN <<Recommendation("size trade-off", <<sizeWinner.strategyId>>,
                            round(best.finalMetrics.modelSize,
                                  sizeWinner.finalMetrics.modelSize))>>
      ELSE <<>>)

\* the recommendations array: the accuracy message, then the trade-offs
recommendations(best, accuracyWinner, speedWinner, sizeWinner) ==
  <<IF best.finalMetrics.accuracy >= TargetAccuracy
    THEN Recommendation("target achieved", <<>>, 0)
    ELSE Recommendation("target not met", <<>>, 0)>>
  \o (IF speedWinner.strategyId # accuracyWinner.strategyId
      THEN <<Recommendation("speed trade-off",
                            <<accuracyWinner.strategyId, speedWinner.strategyId>>,
                            round(accuracyWinner.finalMetrics.trainingTime,
                                  speedWinner.finalMetrics.trainingTime))>>
      ELSE <<>>)
  \o (IF sizeWinner.strategyId # best.strategyId
      THEN <<Recommendation("size trade-off", <<sizeWinner.strategyId>>,
                            round(best.finalMetrics.modelSize,
                                  sizeWinner.finalMetrics.modelSize))>>
      ELSE <<>>)

NoAnalysis ==
  [accuracyWinner |-> 0, speedWinner |-> 0, sizeWinner |-> 0, overallWinner |-> 0,
   recommendations |-> <<>>]

\* no compareStrategies call has been made
NoComparison ==
  [state |-> "none", engine |-> "none", error |-> "absent",
   best |-> NoResult, ranking |-> <<>>, analysis |-> NoAnalysis]

\* compareStrategies(list) on a build whose sort is engine: it throws, or it
\* returns best, ranking and analysis
compareStrategies(list, engine) ==
  LET ranked == sort(engine, filter(list))
  IN IF Len(ranked) = 0
     THEN [NoComparison EXCEPT !.state = "thrown", !.engine = engine,
                               !.error = NoSuccessfulMessage]
     ELSE LET best           == ranked[1]
              accuracyWinner == reduce(ranked, "accuracy")
              speedWinner    == reduce(ranked, "trainingTime")
              sizeWinner     == reduce(ranked, "modelSize")
          IN [state |-> "returned", engine |-> engine, error |-> "absent",
              best |-> best, ranking |-> ranked,
              analysis |->
                [accuracyWinner |-> accuracyWinner.strategyId,
                 speedWinner |-> speedWinner.strategyId,
                 sizeWinner |-> sizeWinner.strategyId,
                 overallWinner |-> best.strategyId,
                 recommendations |->
                   recommendations(best, accuracyWinner, speedWinner, sizeWinner)]]

\* compareStrategies sorting the caller's array itself, results.sort(...)
\* before the filter (variant that C22 must detect)
inputAfterSortInPlace(list, engine) == sort(engine, list)

\* the caller's array after compareStrategies: the spread and filter make
\* new arrays and sort reorders the filtered one, so the argument keeps its
\* elements and their order
inputAfter(list, engine) == list

(* --------------------------- specification ---------------------------- *)

\* a call that has not been made on the agent
NoAgentCall == [method |-> "none", pc |-> "none"]

\* a BaseAgent after its constructor: _status = 'idle', initialized = false;
\* onInitializeCalls counts the invocations of onInitialize, calls holds
\* the initialize and execute calls made on the agent
NewAgent ==
  [status |-> "idle", initialized |-> FALSE, onInitializeCalls |-> 0,
   onInitializeFailed |-> FALSE,
   calls |-> [c \in 1..MaxAgentCalls |-> NoAgentCall]]

\* no second executeStrategies call is made on the executor
NoCall ==
  [callState |-> "none", plans |-> <<>>, batches |-> <<>>, batchIndex |-> 0,
   results |-> <<>>]

\* the values of options.maxConcurrent of the calls: absent, or a number
\* other than the default, which an absent option stands for
MaxConcurrentOptions ==
  {<<>>} \cup { <<k>> : k \in (1..MaxConcurrent) \ {DefaultMaxConcurrent} }

\* the plan list of n plans
PlanList(n) == [i \in 1..n |-> StrategyId(i)]

Init ==
  /\ agents \in {"regular", "any", "repository"}
  /\ \E n \in 0..(IF agents = "any" THEN MaxPlansAny ELSE MaxPlans) :
       plans = PlanList(n)
  /\ optMaxConcurrent \in MaxConcurrentOptions
  /\ earlyStopOnSuccess \in BOOLEAN
  /\ callState = "idle"
  /\ batches = <<>>
  /\ batchIndex = 0
  /\ results = <<>>
  /\ activeExecutions = {}
  /\ runs = [s \in Ids |-> NoRun]
  /\ comparison = NoComparison
  /\ comparisonAgain = NoComparison
  /\ other = NoCall
  /\ agent = NewAgent

Next ==
  \/ ExecuteStrategies
  \/ \E s \in Ids : DelegateSettles(s)
  \/ \E s \in Ids : TimeoutFires(s)
  \/ BatchEarlyStop
  \/ BatchNext
  \/ BatchLast

Spec == Init /\ [][Next]_vars

(* ------------------------ the call under fairness --------------------- *)

\* the calls checked for termination: up to MaxPlansLive plans
InitLive ==
  /\ Init
  /\ Len(plans) <= MaxPlansLive

\* The event loop runs every continuation that is ready, and every
\* delegate call in flight settles at some time; the timeout may or may not
\* elapse while a delegate is in flight.
Fairness ==
  /\ WF_vars(ExecuteStrategies)
  /\ \A s \in Ids : WF_vars(DelegateSettles(s))
  /\ WF_vars(BatchEarlyStop)
  /\ WF_vars(BatchNext)
  /\ WF_vars(BatchLast)

SpecLive == InitLive /\ [][Next]_vars /\ Fairness

\* the same calls without the fairness conditions: the claims about the
\* events, the result and the cleanup of one strategy's run are checked on
\* them
SpecRunner == InitLive /\ [][Next]_vars

(* ----------------------- createBatches on its own --------------------- *)

\* the item lists handed to createBatches: every list of up to MaxItems plans
ItemLists ==
  UNION { [1..n -> {StrategyId(1), StrategyId(2)}] : n \in 0..MaxItems }

InitBatches ==
  /\ agents = "regular"
  /\ plans \in ItemLists
  /\ optMaxConcurrent \in {<<>>} \cup { <<k>> : k \in 1..MaxBatchSize }
  /\ earlyStopOnSuccess = FALSE
  /\ callState = "idle"
  /\ batches = <<>>
  /\ batchIndex = 0
  /\ results = <<>>
  /\ activeExecutions = {}
  /\ runs = [s \in Ids |-> NoRun]
  /\ comparison = NoComparison
  /\ comparisonAgain = NoComparison
  /\ other = NoCall
  /\ agent = NewAgent

\* const batches = this.createBatches(plans, maxConcurrent)
CreateBatches ==
  /\ callState = "idle"
  /\ batches' = createBatches(plans, maxConcurrent)
  /\ callState' = "batched"
  /\ UNCHANGED <<inputs, batchIndex, results, activeExecutions, runs, comparison, comparisonAgain, other, agent>>

NextBatches == CreateBatches

SpecBatches == InitBatches /\ [][NextBatches]_vars

(* --------------------- compareStrategies on its own ------------------- *)

\* a successful ExecutionResult with the given metrics
Result(strategyId, accuracy, trainingTime, modelSize) ==
  [strategyId |-> strategyId, success |-> TRUE,
   finalMetrics |-> Metrics(accuracy, 234, trainingTime, modelSize),
   model |-> "model", error |-> "absent"]

\* The results a caller may hand to compareStrategies, with distinct
\* strategyIds: accuracies within and beyond the tolerance of one another and
\* exactly at it (0.93/0.94, 0.94/0.95), equal accuracies, training times and
\* model sizes, and two failure results.
Candidates ==
  << Result(201, 950, 200, 40),
     Result(202, 900, 50, 40),
     Result(203, 920, 150, 10),
     Result(204, 901, 100, 20),
     Result(205, 905, 80, 20),
     Result(206, 912, 120, 30),
     Result(207, 940, 50, 40),
     Result(208, 930, 40, 30),
     Result(209, 950, 300, 10),
     FailureResult(210, PhaseFailedMessage[3]),
     RejectedResult(211, NotAnError) >>

\* every list of up to MaxResults different candidates
ResultLists ==
  UNION { { [i \in 1..n |-> Candidates[f[i]]] :
              f \in { g \in [1..n -> 1..Len(Candidates)] :
                        \A i, j \in 1..n : i # j => g[i] # g[j] } }
          : n \in 0..MaxResults }

InitCompare ==
  /\ agents = "regular"
  /\ plans = <<>>
  /\ optMaxConcurrent = <<>>
  /\ earlyStopOnSuccess = FALSE
  /\ callState = "returned"
  /\ batches = <<>>
  /\ batchIndex = 0
  /\ results \in ResultLists
  /\ activeExecutions = {}
  /\ runs = [s \in Ids |-> NoRun]
  /\ comparison = NoComparison
  /\ comparisonAgain = NoComparison
  /\ other = NoCall
  /\ agent = NewAgent

\* the caller hands the result list to compareStrategies
CompareStrategies ==
  /\ callState = "returned"
  /\ comparison.state = "none"
  /\ \E engine \in Engines :
       /\ comparison' = compareStrategies(results, engine)
       /\ results' = inputAfter(results, engine)
  /\ UNCHANGED <<inputs, callState, batches, batchIndex, activeExecutions, runs,
                 comparisonAgain, other, agent>>

\* the caller hands the same list to compareStrategies once more, on the
\* same build
CompareAgain ==
  /\ callState = "returned"
  /\ comparison.state # "none"
  /\ comparisonAgain.state = "none"
  /\ comparisonAgain' = compareStrategies(results, comparison.engine)
  /\ results' = inputAfter(results, comparison.engine)
  /\ UNCHANGED <<inputs, callState, batches, batchIndex, activeExecutions, runs,
                 comparison, other, agent>>

NextCompare ==
  \/ CompareStrategies
  \/ CompareAgain

SpecCompare == InitCompare /\ [][NextCompare]_vars

(* ------------------- two calls on the same executor ------------------- *)

\* Two executeStrategies calls are made on one ParallelExecutor, with
\* disjoint plan lists and the same options: the first call's state is in
\* the variables of the call, the second call's in other; runs and
\* activeExecutions, the Map of the executor, serve both.
InitTwoCalls ==
  /\ agents = "regular"
  /\ \E n \in 1..(MaxPlans - 1) :
       /\ plans = PlanList(n)
       /\ other = [NoCall EXCEPT
                     !.callState = "idle",
                     !.plans = [i \in 1..(MaxPlans - n) |-> StrategyId(n + i)]]
  /\ optMaxConcurrent \in MaxConcurrentOptions
  /\ earlyStopOnSuccess \in BOOLEAN
  /\ callState = "idle"
  /\ batches = <<>>
  /\ batchIndex = 0
  /\ results = <<>>
  /\ activeExecutions = {}
  /\ runs = [s \in Ids |-> NoRun]
  /\ comparison = NoComparison
  /\ comparisonAgain = NoComparison
  /\ agent = NewAgent

\* the second call of executeStrategies, up to its first await
OtherExecuteStrategies ==
  /\ other.callState = "idle"
  /\ LET b == createBatches(other.plans, maxConcurrent)
     IN IF Len(b) = 0
        THEN /\ other' = [other EXCEPT !.callState = "returned", !.batches = b,
                                       !.results = <<>>]
             /\ UNCHANGED <<runs, activeExecutions>>
        ELSE /\ other' = [other EXCEPT !.callState = "running", !.batches = b,
                                       !.results = <<>>, !.batchIndex = 1]
             /\ launch(b[1])
  /\ UNCHANGED <<inputs, callState, batches, batchIndex, results, comparison,
                 comparisonAgain, agent>>

\* the second call's continuation of await Promise.allSettled: the early
\* stop return
OtherBatchEarlyStop ==
  /\ other.callState = "running"
  /\ allSettled(other.batches[other.batchIndex])
  /\ LET c == collect(other.batches[other.batchIndex], 1, other.results)
     IN /\ c.stopped
        /\ other' = [other EXCEPT !.results = c.results, !.callState = "returned"]
        /\ cancelRemainingExecutions
  /\ UNCHANGED <<inputs, callState, batches, batchIndex, results, comparison,
                 comparisonAgain, agent>>

\* the second call's continuation of await Promise.allSettled: on to its
\* next batch
OtherBatchNext ==
  /\ other.callState = "running"
  /\ allSettled(other.batches[other.batchIndex])
  /\ other.batchIndex < Len(other.batches)
  /\ LET c == collect(other.batches[other.batchIndex], 1, other.results)
     IN /\ ~c.stopped
        /\ other' = [other EXCEPT !.results = c.results,
                                  !.batchIndex = other.batchIndex + 1]
  /\ launch(other.batches[other.batchIndex + 1])
  /\ UNCHANGED <<inputs, callState, batches, batchIndex, results, comparison,
                 comparisonAgain, agent>>

\* the second call's continuation of await Promise.allSettled: its last
\* batch, return results
OtherBatchLast ==
  /\ other.callState = "running"
  /\ allSettled(other.batches[other.batchIndex])
  /\ other.batchIndex = Len(other.batches)
  /\ LET c == collect(other.batches[other.batchIndex], 1, other.results)
     IN /\ ~c.stopped
        /\ other' = [other EXCEPT !.results = c.results, !.callState = "returned"]
  /\ UNCHANGED <<inputs, callState, batches, batchIndex, results, activeExecutions,
                 runs, comparison, comparisonAgain, agent>>

NextTwoCalls ==
  \/ ExecuteStrategies
  \/ \E s \in Ids : DelegateSettles(s)
  \/ \E s \in Ids : TimeoutFires(s)
  \/ BatchEarlyStop
  \/ BatchNext
  \/ BatchLast
  \/ OtherExecuteStrategies
  \/ OtherBatchEarlyStop
  \/ OtherBatchNext
  \/ OtherBatchLast

SpecTwoCalls == InitTwoCalls /\ [][NextTwoCalls]_vars

(* ------------------------- BaseAgent on its own ----------------------- *)

\* One agent of the executor and the calls made on it: execute by the
\* strategies of a batch, initialize by ParallelExecutor.initialize.
InitAgent ==
  /\ agents = "regular"
  /\ plans = <<>>
  /\ optMaxConcurrent = <<>>
  /\ earlyStopOnSuccess = FALSE
  /\ callState = "idle"
  /\ batches = <<>>
  /\ batchIndex = 0
  /\ results = <<>>
  /\ activeExecutions = {}
  /\ runs = [s \in Ids |-> NoRun]
  /\ comparison = NoComparison
  /\ comparisonAgain = NoComparison
  /\ other = NoCall
  /\ agent = NewAgent

agentUnchanged ==
  UNCHANGED <<inputs, callState, batches, batchIndex, results, activeExecutions,
              runs, comparison, comparisonAgain, other>>

\* initialize up to its await, called by call c: return at once when the
\* agent is initialised, else set the status and invoke onInitialize
initialize(a, c, method) ==
  IF a.initialized
  THEN [a EXCEPT !.calls[c] = [method |-> method, pc |-> "initialized"]]
  ELSE [a EXCEPT !.status = "initializing",
                 !.onInitializeCalls = @ + 1,
                 !.calls[c] = [method |-> method, pc |-> "awaitOnInitialize"]]

\* execute from its try block to its await: set the status, invoke onExecute
tryOnExecute(a, c) ==
  [a EXCEPT !.status = "active",
            !.calls[c] = [method |-> "execute", pc |-> "awaitOnExecute"]]

\* a call of agent.initialize()
CallInitialize(c) ==
  /\ agent.calls[c] = NoAgentCall
  /\ agent' = LET a == initialize(agent, c, "initialize")
              IN IF a.calls[c].pc = "initialized"
                 THEN [a EXCEPT !.calls[c].pc = "returned"]
                 ELSE a
  /\ agentUnchanged

\* a call of agent.execute(task): initialize first when not initialised
CallExecute(c) ==
  /\ agent.calls[c] = NoAgentCall
  /\ agent' = IF ~agent.initialized
              THEN initialize(agent, c, "execute")
              ELSE tryOnExecute(agent, c)
  /\ agentUnchanged

\* the onInitialize promise awaited by call c settles: initialize goes on
\* to its end or to its catch block
OnInitializeSettles(c) ==
  /\ agent.calls[c].pc = "awaitOnInitialize"
  /\ \E fulfilled \in BOOLEAN :
       agent' =
         IF fulfilled
         THEN [agent EXCEPT
                 !.initialized = TRUE,
                 !.status = "idle",
                 !.calls[c].pc = IF agent.calls[c].method = "execute"
                                 THEN "initialized" ELSE "returned"]
         ELSE [agent EXCEPT !.status = "error",
                            !.onInitializeFailed = TRUE,
                            !.calls[c].pc = "thrown"]
  /\ agentUnchanged

\* execute goes on after await this.initialize()
ExecuteResumes(c) ==
  /\ agent.calls[c] = [method |-> "execute", pc |-> "initialized"]
  /\ agent' = tryOnExecute(agent, c)
  /\ agentUnchanged

\* the onExecute promise awaited by call c settles: 'completed' then 'idle'
\* and return, or 'error' and rethrow
OnExecuteSettles(c) ==
  /\ agent.calls[c].pc = "awaitOnExecute"
  /\ \E o \in Outcomes(1) :
       agent' = IF o.kind = "reject"
                THEN [agent EXCEPT !.status = "error", !.calls[c].pc = "thrown"]
                ELSE [agent EXCEPT !.status = "idle", !.calls[c].pc = "returned"]
  /\ agentUnchanged

NextAgent ==
  \E c \in 1..MaxAgentCalls :
    \/ CallInitialize(c)
    \/ CallExecute(c)
    \/ OnInitializeSettles(c)
    \/ ExecuteResumes(c)
    \/ OnExecuteSettles(c)

SpecAgent == InitAgent /\ [][NextAgent]_vars

(* ------------------------------ claims -------------------------------- *)

\* the batch (from 1) that the plan at position i (from 1) belongs to
BatchOf(i) == ((i - 1) \div maxConcurrent) + 1

\* a result that is successful with accuracy >= 0.95
ReachesTarget(v) == v.success /\ v.finalMetrics.accuracy >= 950

\* a result without model handle and with the failure sentinel metrics
IsFailureSentinel(v) ==
  /\ v.model = "absent"
  /\ v.finalMetrics.accuracy = 0
  /\ v.finalMetrics.loss = Infinity
  /\ v.finalMetrics.trainingTime = 0
  /\ v.finalMetrics.modelSize = 0

\* something of the strategy has happened: a registry entry, an event, a
\* delegate call, a timer, a promise
Started(s) ==
  \/ s \in activeExecutions
  \/ runs[s] # NoRun

ResultIdsInInputOrder ==
  /\ Len(results) <= Len(plans)
  /\ \A i \in 1..Len(results) : results[i].strategyId = plans[i]

\* C1 as stated: for every non-empty plan list, executeStrategies returns
\* exactly one result per input plan, the i-th carrying the strategyId of the
\* i-th plan.
C1_OneResultPerPlan ==
  (callState = "returned" /\ Len(plans) >= 1)
    => (Len(results) = Len(plans) /\ ResultIdsInInputOrder)

\* C1 amended: the i-th returned result carries the strategyId of the i-th
\* plan, and there is exactly one result per input plan unless
\* earlyStopOnSuccess is set and a returned result is successful with
\* accuracy >= 0.95.
C1_OneResultPerPlanUnlessEarlyStop ==
  (callState = "returned" /\ Len(plans) >= 1)
    => /\ ResultIdsInInputOrder
       /\ (~earlyStopOnSuccess \/ \A i \in 1..Len(results) : ~ReachesTarget(results[i]))
            => Len(results) = Len(plans)

\* a call over two batches has returned one result per plan
C1_Witness ==
  /\ callState = "returned"
  /\ Len(batches) >= 2
  /\ Len(results) = Len(plans)
  /\ earlyStopOnSuccess

\* the run of the plan at position i has failed
FailedAt(i) ==
  \/ runs[plans[i]].status = "rejected"
  \/ runs[plans[i]].status = "fulfilled" /\ ~runs[plans[i]].value.success

\* the call stopped early: a returned result reached the target
StoppedEarly ==
  earlyStopOnSuccess /\ \E k \in 1..Len(results) : ReachesTarget(results[k])

C2_Collected ==
  /\ callState # "rejected"
  /\ Len(results) <= Len(plans)
  /\ \A i \in 1..Len(results) :
       LET s == plans[i]
       IN /\ results[i].strategyId = s
          /\ runs[s].status = "fulfilled" => results[i] = runs[s].value
          /\ runs[s].status # "fulfilled" =>
               (~results[i].success /\ IsFailureSentinel(results[i]))
          /\ ~results[i].success => IsFailureSentinel(results[i])

\* C2 as stated, its state part: executeStrategies does not reject and every
\* strategy that failed has, in the returned list, a failure result with its
\* own strategyId at its own position.
C2_FailureAtOwnPosition ==
  /\ C2_Collected
  /\ callState = "returned" =>
       \A i \in 1..Len(plans) : FailedAt(i) => i <= Len(results)

C2_CollectedUnlessStopped ==
  /\ C2_Collected
  /\ (callState = "returned" /\ ~StoppedEarly) =>
       \A i \in 1..Len(plans) : FailedAt(i) => i <= Len(results)

C2_FailureStep ==
  /\ Len(results') >= Len(results)
  /\ SubSeq(results', 1, Len(results)) = results
  /\ \A s \in Ids :
       ( /\ runs[s].status = "running"
         /\ runs'[s].status \in {"fulfilled", "rejected"}
         /\ (runs'[s].status = "rejected" \/ ~runs'[s].value.success) )
       => /\ \A t \in Ids \ {s} : runs'[t] = runs[t]
          /\ results' = results
          /\ callState' = callState

\* C2 amended: a failing strategy gets a failure result with its own
\* strategyId at its own position unless the call stopped early before
\* collecting it; the step in which it fails changes no other strategy and
\* no collected result; executeStrategies never rejects.
C2_Isolation == []C2_CollectedUnlessStopped /\ [][C2_FailureStep]_vars

\* a batch of a returned call holds a failed and a successful strategy
C2_Witness ==
  /\ callState = "returned"
  /\ \E i, j \in 1..Len(results) :
       /\ BatchOf(i) = BatchOf(j)
       /\ ~results[i].success
       /\ results[j].success

\* C3: the promise of executeSingleStrategy never rejects; when it settles
\* it resolves to an ExecutionResult of its own strategy.
C3_RunnerNeverRaises ==
  \A s \in Ids :
    /\ runs[s].status # "rejected"
    /\ runs[s].status = "fulfilled" =>
         /\ runs[s].value.strategyId = s
         /\ runs[s].value.success \/ runs[s].value.error # "absent"

\* a delegate rejected with something that is no Error and the run resolved
C3_Witness ==
  \E s \in Ids :
    /\ runs[s].status = "fulfilled"
    /\ runs[s].value.error = UnknownErrorMessage

\* C4: every result with success = false, from the runner's catch block or
\* from the scheduler's branch for a rejected run, has no model handle and
\* the metrics accuracy 0, loss +infinity, trainingTime 0, modelSize 0.
C4_FailureSentinel ==
  /\ \A s \in Ids :
       /\ (runs[s].status = "fulfilled" /\ ~runs[s].value.success)
            => IsFailureSentinel(runs[s].value)
       /\ IsFailureSentinel(RejectedResult(s, runs[s].reason))
       /\ ~RejectedResult(s, runs[s].reason).success
  /\ \A i \in 1..Len(results) :
       ~results[i].success => IsFailureSentinel(results[i])

\* a failed result has been collected
C4_Witness ==
  \E i \in 1..Len(results) : ~results[i].success /\ results[i].error = TypeErrorMessage

\* C5: the delegates of a strategy are invoked in the order data, model,
\* training, evaluation, each at most once, and only the delegate invoked
\* last can be unsettled.
C5_PhaseOrder ==
  \A s \in Ids :
    LET c == runs[s].calls
    IN /\ Len(c) <= 4
       /\ \A k \in 1..Len(c) : c[k] = k
       /\ runs[s].pending \subseteq (IF Len(c) = 0 THEN {} ELSE {Len(c)})

\* two strategies of a batch are in different phases, the later one ahead
C5_Witness ==
  \E i, j \in 1..Len(plans) :
    /\ i < j
    /\ runs[plans[i]].pending = {1}
    /\ runs[plans[j]].pending = {4}

\* C6: nothing of a strategy of a later batch has happened until every
\* strategy of the batches before it has settled.
C6_BatchesSequential ==
  \A i, j \in 1..Len(plans) :
    (BatchOf(i) < BatchOf(j) /\ Started(plans[j])) => Settled(runs[plans[i]])

\* all strategies of a batch but one have settled and the next batch waits
C6_Witness ==
  \E i, j, k \in 1..Len(plans) :
    /\ BatchOf(i) = BatchOf(j)
    /\ BatchOf(j) < BatchOf(k)
    /\ Settled(runs[plans[i]])
    /\ runs[plans[j]].status = "running"
    /\ ~Started(plans[k])

RECURSIVE Flatten(_)
Flatten(seqs) ==
  IF seqs = <<>> THEN <<>> ELSE Head(seqs) \o Flatten(Tail(seqs))

\* C7: createBatches cuts the list into consecutive batches of maxConcurrent
\* plans (3 when the option is absent), only the last one possibly smaller,
\* whose concatenation is the list; 7 plans by 3 give sizes 3, 3, 1.
C7_CreateBatches ==
  callState = "batched" =>
    LET n == Len(plans)
        b == IF optMaxConcurrent = <<>> THEN 3 ELSE optMaxConcurrent[1]
        m == Len(batches)
    IN /\ Flatten(batches) = plans
       /\ m = (n + b - 1) \div b
       /\ \A k \in 1..m :
            Len(batches[k]) = (IF k < m THEN b ELSE n - b * (m - 1))
       /\ \A k \in 1..m : Len(batches[k]) \in 1..b
       /\ (n = 7 /\ b = 3) =>
            (m = 3 /\ Len(batches[1]) = 3 /\ Len(batches[2]) = 3
                   /\ Len(batches[3]) = 1)

\* 7 plans have been cut with maxConcurrent 3
C7_Witness ==
  /\ callState = "batched"
  /\ Len(plans) = 7
  /\ optMaxConcurrent = <<3>>
  /\ Len(batches) = 3

\* C8: with earlyStopOnSuccess, a collected result that is successful with
\* accuracy >= 0.95 is the last one, the call has returned and no strategy
\* of a later batch was ever started (no delegate call, no event).
C8_EarlyStopSkipsLaterBatches ==
  earlyStopOnSuccess =>
    \A i \in 1..Len(results) :
      ReachesTarget(results[i]) =>
        /\ callState = "returned"
        /\ i = Len(results)
        /\ \A j \in 1..Len(plans) :
             BatchOf(j) > BatchOf(i) =>
               (~Started(plans[j]) /\ runs[plans[j]].calls = <<>>)

\* an early stop has left a later batch unstarted
C8_Witness ==
  /\ earlyStopOnSuccess
  /\ callState = "returned"
  /\ Len(results) >= 1
  /\ ReachesTarget(results[Len(results)])
  /\ \E j \in 1..Len(plans) : BatchOf(j) > BatchOf(Len(results))

\* C9: while a strategy runs, either its timer is armed or its token is
\* triggered; a triggered token leaves the phase in flight; when that phase
\* returns success the next phase's delegate is not invoked and the result
\* is the failure result with error 'Execution aborted'.
C9_TimeoutAbortsAtNextPhase ==
  \A s \in Ids :
    LET r == runs[s]
    IN /\ r.status = "running" => ((r.timer = "armed") # r.aborted)
       /\ (r.status = "running" /\ r.aborted) => r.pending # {}
       /\ (r.status = "running" /\ r.aborted) =>
            \A p \in r.pending : \A o \in Outcomes(p) : \A m \in ModelSizes :
              (p < 4 /\ o.kind = "resolve" /\ o.success) =>
                LET n == resumeStrategy(r, s, p, o, m)
                IN /\ n.calls = r.calls
                   /\ n.status = "fulfilled"
                   /\ n.value = [strategyId |-> s, success |-> FALSE,
                                 finalMetrics |-> [accuracy |-> 0, loss |-> Infinity,
                                                   trainingTime |-> 0, modelSize |-> 0],
                                 model |-> "absent", error |-> "Execution aborted"]
                   /\ \A k \in 1..Len(n.events) :
                        n.events[k].phase # PhaseNames[p + 1]
                          \/ n.events[k].status = "failed"
       /\ (r.status = "fulfilled" /\ r.value.error = "Execution aborted") =>
            (~r.value.success /\ Len(r.calls) \in 1..3)

\* the timeout elapsed during the training phase and the strategy was aborted
C9_Witness ==
  \E s \in Ids :
    /\ runs[s].status = "fulfilled"
    /\ runs[s].value.error = "Execution aborted"
    /\ runs[s].calls = <<1, 2, 3>>

\* C10: executePhase with a triggered token throws 'Execution aborted' and
\* does nothing else (no event, no call of the work); the part of
\* executePhase after the await does the same whether or not the token is
\* triggered.
C10_AbortedPhaseFailsFast ==
  \A s \in Ids :
    LET r == runs[s]
    IN r.status = "running" =>
         \A p \in r.pending : \A o \in Outcomes(p) :
           LET on  == executePhaseResume([r EXCEPT !.aborted = TRUE], p, o)
               off == executePhaseResume([r EXCEPT !.aborted = FALSE], p, o)
               nxt == executePhase(on.run, IF p < 4 THEN p + 1 ELSE p)
           IN /\ on.state = off.state
              /\ on.result = off.result
              /\ on.error = off.error
              /\ on.run = [off.run EXCEPT !.aborted = TRUE]
              /\ nxt.state = "thrown"
              /\ nxt.error = [isError |-> TRUE, message |-> "Execution aborted"]
              /\ nxt.run = on.run

\* the token was triggered during the data phase: the model phase was entered
\* and failed at once, after the data phase's events and before any other
C10_Witness ==
  \E s \in Ids :
    /\ runs[s].status = "fulfilled"
    /\ runs[s].value.error = "Execution aborted"
    /\ runs[s].calls = <<1>>
    /\ Len(runs[s].events) = 4
    /\ runs[s].events[3] = [phase |-> "data", progress |-> 100, status |-> "completed"]
    /\ runs[s].events[4].status = "failed"

\* C11: a strategy that has produced its result (success, phase failure or
\* cancellation) has no timer and no registry entry, so its timeout callback
\* cannot fire any more; only running strategies are registered; when
\* executeStrategies has returned the registry holds no entry of the call.
C11_GuaranteedCleanup ==
  /\ \A s \in Ids :
       /\ Settled(runs[s]) => (runs[s].timer = "none" /\ s \notin activeExecutions)
       /\ Settled(runs[s]) => ~ENABLED TimeoutFires(s)
       /\ s \in activeExecutions => runs[s].status = "running"
       /\ runs[s].status = "running" =>
            \A p \in runs[s].pending : \A o \in Outcomes(p) : \A m \in ModelSizes :
              LET n == resumeStrategy(runs[s], s, p, o, m)
              IN Settled(n) => n.timer = "none"
  /\ callState = "returned" =>
       \A i \in 1..Len(plans) : plans[i] \notin activeExecutions

\* a call has returned after a success, a phase failure and a cancellation
C11_Witness ==
  /\ callState = "returned"
  /\ \E s, t, u \in Ids :
       /\ runs[s].status = "fulfilled" /\ runs[s].value.success
       /\ runs[t].status = "fulfilled" /\ runs[t].value.error = AbortedMessage
       /\ runs[u].status = "fulfilled" /\ runs[u].value.error = PhaseFailedMessage[2]

\* C12 as stated: whichever of the four phases is in flight, when its
\* delegate rejects or resolves with success = false, no later delegate is
\* invoked and the strategy resolves to a result with success = false and an
\* error in its error field.
C12_PhaseFailureTerminates ==
  \A s \in Ids :
    runs[s].status = "running" =>
      \A p \in runs[s].pending : \A o \in Outcomes(p) : \A m \in ModelSizes :
        (o.kind = "reject" \/ ~o.success) =>
          LET n == resumeStrategy(runs[s], s, p, o, m)
          IN /\ n.calls = runs[s].calls
             /\ n.status = "fulfilled"
             /\ ~n.value.success
             /\ n.value.error # "absent"

\* C13: when the evaluation delegate, invoked after the data, model and
\* training delegates succeeded, succeeds with its output, the strategy
\* resolves to a result with success = true, accuracy and loss of the
\* evaluation output, trainingTime and model of the training output, and its
\* last progress event is 'completed', labelled evaluation, with progress 100.
C13_AllPhasesSucceed ==
  \A s \in Ids :
    LET r == runs[s]
    IN /\ (r.status = "running" /\ 4 \in r.pending) =>
            /\ r.calls = <<1, 2, 3, 4>>
            /\ r.dataResult.success /\ r.trainingResult.success
            /\ \A o \in Outcomes(4) : \A m \in ModelSizes :
                 (o.kind = "resolve" /\ o.success /\ o.hasData) =>
                   LET n == resumeStrategy(r, s, 4, o, m)
                   IN /\ n.status = "fulfilled"
                      /\ n.value.strategyId = s
                      /\ n.value.success
                      /\ n.value.error = "absent"
                      /\ n.value.finalMetrics.accuracy = o.accuracy
                      /\ n.value.finalMetrics.loss = o.loss
                      /\ n.value.finalMetrics.trainingTime = r.trainingResult.trainingTime
                      /\ n.value.finalMetrics.modelSize = m
                      /\ (n.value.model = "model") = r.trainingResult.hasData
                      /\ n.events[Len(n.events)] =
                           [phase |-> "evaluation", progress |-> 100, status |-> "completed"]
                      /\ n.calls = r.calls
       /\ (r.status = "fulfilled" /\ r.value.success) =>
            /\ r.calls = <<1, 2, 3, 4>>
            /\ r.events[Len(r.events)] =
                 [phase |-> "evaluation", progress |-> 100, status |-> "completed"]
            /\ r.value.finalMetrics.trainingTime \in TrainingTimes

\* a strategy has succeeded with the accuracy of its evaluation output and
\* the training time of its training output
C13_Witness ==
  \E s \in Ids :
    /\ runs[s].status = "fulfilled"
    /\ runs[s].value.success
    /\ runs[s].value.finalMetrics.accuracy = 940
    /\ runs[s].value.finalMetrics.trainingTime = 80
    /\ runs[s].value.model = "model"
    /\ Len(runs[s].events) = 10

\* the positions of the terminal events (completed or failed) of a run that
\* carry the label of phase p
TerminalEvents(r, p) ==
  { k \in 1..Len(r.events) :
      /\ r.events[k].phase = PhaseNames[p]
      /\ r.events[k].status \in {"completed", "failed"} }

\* C14 as stated: when a strategy has produced its result, every phase it
\* attempted (its delegate was invoked) has exactly one terminal progress
\* event (completed or failed) with its label, on success and failure paths.
C14_OneTerminalEventPerPhase ==
  \A s \in Ids :
    Settled(runs[s]) =>
      \A p \in Range(runs[s].calls) :
        Cardinality(TerminalEvents(runs[s], p)) = 1

\* C15 as stated: the 'failed' event of a strategy that failed carries the
\* label of the phase most recently attempted (the last phase whose 'running'
\* event was published, or whose delegate was invoked).
C15_FailedEventNamesFailingPhase ==
  \A s \in Ids :
    LET r == runs[s]
        n == Len(r.events)
    IN (r.status = "fulfilled" /\ ~r.value.success) =>
         /\ r.events[n].status = "failed"
         /\ Len(r.calls) >= 1
         /\ r.events[n].phase \in
              { PhaseNames[r.calls[Len(r.calls)]], r.events[n - 1].phase }

\* the run after phase p returned o to executeSingleStrategy, which keeps
\* the data and the training result in its locals
AfterReturn(r, p, o) ==
  [r EXCEPT !.dataResult = IF p = 1 THEN o ELSE @,
            !.trainingResult = IF p = 3 THEN o ELSE @]

\* C16: an executePhase invocation whose token is not triggered publishes
\* 'running' with progress 25 and then invokes the work; when the work
\* returns it publishes 'completed' with progress 100 and returns the work's
\* result; when the work raises it publishes nothing more and throws the
\* work's error: one or two events per invocation.
C16_PhaseEvents ==
  \A s \in Ids :
    LET r == runs[s]
    IN /\ r.status = "running" =>
            \A p \in r.pending : \A o \in Outcomes(p) :
              LET x == executePhaseResume(r, p, o)
              IN /\ o.kind = "resolve" =>
                      /\ x.state = "returned"
                      /\ x.result = o
                      /\ x.run.events =
                           Append(r.events, [phase |-> PhaseNames[p], progress |-> 100,
                                             status |-> "completed"])
                 /\ o.kind = "reject" =>
                      /\ x.state = "thrown"
                      /\ x.error.isError = o.isError
                      /\ x.run.events = r.events
                 /\ x.run.calls = r.calls
                 /\ (o.kind = "resolve" /\ o.success /\ p < 4 /\ ~r.aborted) =>
                      LET r1 == AfterReturn(x.run, p, o)
                          y  == executePhase(r1, p + 1)
                      IN /\ y.run.events =
                              Append(r1.events, [phase |-> PhaseNames[p + 1],
                                                 progress |-> 25, status |-> "running"])
                         /\ y.state \in {"awaiting", "thrown"}
                         /\ y.state = "awaiting" =>
                              (y.run.calls = Append(r1.calls, p + 1)
                                 /\ y.run.pending = {p + 1})
                         /\ y.state = "thrown" =>
                              (y.run.calls = r1.calls /\ y.run.pending = {}
                                 /\ y.error.isError)
       /\ \A p \in Range(r.calls) :
            LET running   == { k \in 1..Len(r.events) :
                                 r.events[k] = [phase |-> PhaseNames[p], progress |-> 25,
                                                status |-> "running"] }
                completed == { k \in 1..Len(r.events) :
                                 /\ r.events[k].phase = PhaseNames[p]
                                 /\ r.events[k].status = "completed"
                                 /\ k < Len(r.events) \/ ~Settled(r) }
            IN /\ Cardinality(running) = 1
               /\ Cardinality(completed) <= 1
               /\ p \in r.pending => completed = {}
               /\ \A k \in completed : \A j \in running : j < k
               /\ \A k \in completed : r.events[k].progress = 100

\* the work of the model phase raised after the data phase returned: the
\* data phase published two events, the model phase one
C16_Witness ==
  \E s \in Ids :
    /\ runs[s].status = "fulfilled"
    /\ runs[s].value.error = DelegateErrorMessage
    /\ runs[s].calls = <<1, 2>>
    /\ Len(runs[s].events) = 5
    /\ runs[s].events[4] = [phase |-> "model", progress |-> 25, status |-> "running"]

\* C17 as stated: among the events of a strategy that carry the same phase
\* label, a later event never has a smaller progress than an earlier one,
\* and every progress lies in 0..100, on every path.
C17_ProgressMonotone ==
  \A s \in Ids :
    LET e == runs[s].events
    IN /\ \A k \in 1..Len(e) : e[k].progress \in 0..100
       /\ \A j, k \in 1..Len(e) :
            (j < k /\ e[j].phase = e[k].phase) => e[j].progress <= e[k].progress

\* the positions of the successful results of the list handed to
\* compareStrategies
Successful == { i \in 1..Len(results) : results[i].success }

\* C18: compareStrategies throws 'No successful strategies to compare'
\* exactly when its input holds no successful result (the empty input
\* included); otherwise the ranking holds every successful input result
\* exactly once and nothing else, so no failed result.
C18_SuccessfulOnly ==
  comparison.state # "none" =>
    /\ (comparison.state = "thrown") = (Successful = {})
    /\ comparison.state = "thrown" =>
         comparison.error = "No successful strategies to compare"
    /\ comparison.state = "returned" =>
         LET ranking == comparison.ranking
         IN /\ Len(ranking) = Cardinality(Successful)
            /\ \A i \in Successful :
                 Cardinality({ k \in 1..Len(ranking) : ranking[k] = results[i] }) = 1
            /\ \A k \in 1..Len(ranking) :
                 /\ ranking[k].success
                 /\ \E i \in Successful : ranking[k] = results[i]

\* a list of a failed result between two successful ones has been ranked
C18_Witness ==
  /\ comparison.state = "returned"
  /\ Len(results) = 3
  /\ ~results[2].success
  /\ Len(comparison.ranking) = 2

\* C19 as stated: of any two results of the ranking, when their accuracies
\* differ by less than 0.01 the one ranked first has no longer a training
\* time, and when they differ by more than 0.01 the one ranked first has the
\* higher accuracy (a difference of exactly 0.01 is left open); the results
\* with accuracies 0.901 and 0.905 and times 100 and 80 are ranked the one
\* with time 80 first.
C19_RankingOrder ==
  comparison.state = "returned" =>
    LET ranking == comparison.ranking
    IN /\ \A i, j \in 1..Len(ranking) :
            i < j =>
              LET a == ranking[i].finalMetrics
                  b == ranking[j].finalMetrics
                  d == IF a.accuracy >= b.accuracy THEN a.accuracy - b.accuracy
                                                   ELSE b.accuracy - a.accuracy
              IN /\ d < 10 => a.trainingTime <= b.trainingTime
                 /\ d > 10 => a.accuracy > b.accuracy
       /\ \A i, j \in 1..Len(ranking) :
            ( /\ ranking[i].finalMetrics.accuracy = 905
              /\ ranking[i].finalMetrics.trainingTime = 80
              /\ ranking[j].finalMetrics.accuracy = 901
              /\ ranking[j].finalMetrics.trainingTime = 100 ) => i < j

\* C20: whatever best is, accuracyWinner is the strategyId of the first
\* result of the ranking with the highest accuracy of all successful
\* results, speedWinner that of the first one with the lowest training time,
\* sizeWinner that of the first one with the lowest model size; overallWinner
\* is the strategyId of best, the first of the ranking.
C20_CategoryWinners ==
  comparison.state = "returned" =>
    LET ranking == comparison.ranking
        n       == Len(ranking)
        m(k)    == ranking[k].finalMetrics
    IN /\ \E k \in 1..n :
            /\ comparison.analysis.accuracyWinner = ranking[k].strategyId
            /\ \A i \in Successful : results[i].finalMetrics.accuracy <= m(k).accuracy
            /\ \A j \in 1..(k - 1) : m(j).accuracy < m(k).accuracy
       /\ \E k \in 1..n :
            /\ comparison.analysis.speedWinner = ranking[k].strategyId
            /\ \A i \in Successful :
                 results[i].finalMetrics.trainingTime >= m(k).trainingTime
            /\ \A j \in 1..(k - 1) : m(j).trainingTime > m(k).trainingTime
       /\ \E k \in 1..n :
            /\ comparison.analysis.sizeWinner = ranking[k].strategyId
            /\ \A i \in Successful : results[i].finalMetrics.modelSize >= m(k).modelSize
            /\ \A j \in 1..(k - 1) : m(j).modelSize > m(k).modelSize
       /\ comparison.best = ranking[1]
       /\ comparison.analysis.overallWinner = ranking[1].strategyId

\* the three category winners all differ from best, and two of them from
\* one another
C20_Witness ==
  /\ comparison.state = "returned"
  /\ comparison.analysis.accuracyWinner # comparison.analysis.overallWinner
  /\ comparison.analysis.speedWinner # comparison.analysis.overallWinner
  /\ comparison.analysis.sizeWinner # comparison.analysis.overallWinner
  /\ comparison.analysis.speedWinner # comparison.analysis.sizeWinner

\* the result of the ranking with the given strategyId
Ranked(id) ==
  CHOOSE r \in Range(comparison.ranking) : r.strategyId = id

\* f is x / y rounded to the nearest integer, halves up
IsRounded(f, x, y) == (2 * f - 1) * y <= 2 * x /\ 2 * x < (2 * f + 1) * y

\* C21: the recommendations are the accuracy message chosen by
\* best.accuracy >= 0.95, then a speed trade-off entry (the rounded multiple
\* accuracyWinner time / speedWinner time) exactly when speedWinner differs
\* from accuracyWinner, then a size trade-off entry (best size / sizeWinner
\* size) exactly when sizeWinner differs from best, and nothing else; A(0.95,
\* size 40, time 200), B(0.90, 40, 50), C(0.92, 10, 150) give best A,
\* speedWinner B, sizeWinner C and both entries.
C21_Recommendations ==
  comparison.state = "returned" =>
    LET an    == comparison.analysis
        recs  == an.recommendations
        speed == an.speedWinner # an.accuracyWinner
        size  == an.sizeWinner # comparison.best.strategyId
        ps    == 2
        pz    == IF speed THEN 3 ELSE 2
    IN /\ Len(recs) = 1 + (IF speed THEN 1 ELSE 0) + (IF size THEN 1 ELSE 0)
       /\ recs[1].kind = (IF comparison.best.finalMetrics.accuracy >= 950
                          THEN "target achieved" ELSE "target not met")
       /\ speed =>
            /\ recs[ps].kind = "speed trade-off"
            /\ recs[ps].strategyIds = <<an.accuracyWinner, an.speedWinner>>
            /\ IsRounded(recs[ps].factor,
                         Ranked(an.accuracyWinner).finalMetrics.trainingTime,
                         Ranked(an.speedWinner).finalMetrics.trainingTime)
       /\ size =>
            /\ recs[pz].kind = "size trade-off"
            /\ recs[pz].strategyIds = <<an.sizeWinner>>
            /\ IsRounded(recs[pz].factor,
                         comparison.best.finalMetrics.modelSize,
                         Ranked(an.sizeWinner).finalMetrics.modelSize)
       /\ { results[i].strategyId : i \in 1..Len(results) } = {201, 202, 203} =>
            /\ comparison.best.strategyId = 201
            /\ an.speedWinner = 202
            /\ an.sizeWinner = 203
            /\ [i \in 1..Len(recs) |-> recs[i].kind] =
                 <<"target achieved", "speed trade-off", "size trade-off">>
            /\ recs[2].factor = 4 /\ recs[3].factor = 4

\* A, B and C have been compared, handed over with the best one last
C21_Witness ==
  /\ comparison.state = "returned"
  /\ [i \in 1..Len(results) |-> results[i].strategyId] = <<203, 202, 201>>
  /\ Len(comparison.analysis.recommendations) = 3

C22_SameOutput ==
  comparisonAgain.state # "none" =>
    /\ comparisonAgain.state = comparison.state
    /\ comparisonAgain.error = comparison.error
    /\ comparisonAgain.best = comparison.best
    /\ comparisonAgain.ranking = comparison.ranking
    /\ comparisonAgain.analysis = comparison.analysis

C22_NoEffect ==
  /\ results' = results
  /\ activeExecutions' = activeExecutions
  /\ runs' = runs
  /\ agents' = agents

Active == { s \in Ids : runs[s].status = "running" }

\* C23: at every moment of a call, the strategies started and not yet
\* settled are exactly the entries of activeExecutions, and there are at
\* most maxConcurrent of them (3 when the option is absent).
C23_BoundedConcurrency ==
  /\ Active = activeExecutions
  /\ Cardinality(Active) <=
       (IF optMaxConcurrent = <<>> THEN 3 ELSE optMaxConcurrent[1])
  /\ Active \subseteq Range(plans)

\* a full batch of two is running while a third plan waits for its batch
C23_Witness ==
  /\ optMaxConcurrent = <<2>>
  /\ Len(plans) = 3
  /\ Cardinality(activeExecutions) = 2
  /\ runs[plans[3]] = NoRun
  /\ \E s \in activeExecutions : runs[s].aborted

\* the positions of the plans whose run resolved to a successful result
\* with accuracy >= 0.95
TargetPositions ==
  { i \in 1..Len(plans) :
      runs[plans[i]].status = "fulfilled" /\ ReachesTarget(runs[plans[i]].value) }

EarlyStopDue ==
  /\ callState = "running"
  /\ allSettled(batches[batchIndex])
  /\ collect(batches[batchIndex], 1, results).stopped

C25_NothingActiveAtEarlyStop ==
  EarlyStopDue =>
    /\ activeExecutions = {}
    /\ \A i \in 1..Len(plans) :
         /\ BatchOf(i) <= batchIndex => Settled(runs[plans[i]])
         /\ BatchOf(i) > batchIndex => runs[plans[i]] = NoRun

C25_EarlyStopStep ==
  (EarlyStopDue /\ callState' = "returned") =>
    (runs' = runs /\ activeExecutions' = activeExecutions)

\* C25: whenever the early-stop branch of a call runs, the registry is
\* empty, every strategy of the batches so far has settled and no later
\* batch has started; the step that calls cancelRemainingExecutions changes
\* no strategy and no registry entry.
C25_CancelIsDead == []C25_NothingActiveAtEarlyStop /\ [][C25_EarlyStopStep]_vars

\* the early-stop branch is about to run in the second batch
C25_Witness ==
  /\ EarlyStopDue
  /\ batchIndex = 2
  /\ Len(results) = 2

C26_EveryBatchStarted ==
  callState = "returned" =>
    \A i \in 1..Len(plans) :
      \/ runs[plans[i]] # NoRun
      \/ StoppedEarly /\ BatchOf(i) > BatchOf(Len(results))

\* C26: when every delegate call in flight settles at some time, the call
\* returns at some time, whether or not timeouts elapse; when it has
\* returned, every strategy has been started except those of the batches
\* behind an early stop.
C26_Termination == <>(callState = "returned") /\ []C26_EveryBatchStarted

\* a call over two batches has returned with a strategy whose timeout
\* elapsed and one whose timeout did not
C26_Witness ==
  /\ callState = "returned"
  /\ Len(batches) = 2
  /\ Len(results) = 2
  /\ results[1].error = AbortedMessage
  /\ results[2].success

\* C28 as stated: whenever compareStrategies returns, the accuracy of best
\* is at most 0.01 below the highest accuracy among the successful results
\* of its input.
C28_BestWithinTolerance ==
  comparison.state = "returned" =>
    \A i \in Successful :
      results[i].finalMetrics.accuracy
        <= comparison.best.finalMetrics.accuracy + 10

\* the early-stop branch of the second call is about to run
OtherEarlyStopDue ==
  /\ other.callState = "running"
  /\ allSettled(other.batches[other.batchIndex])
  /\ collect(other.batches[other.batchIndex], 1, other.results).stopped

\* the step leaves the invocation and the registry entry of every strategy
\* of the plan list as they are
Untouched(planList) ==
  \A s \in Range(planList) :
    /\ runs'[s] = runs[s]
    /\ s \in activeExecutions => s \in activeExecutions'

\* C27 as stated: of two executeStrategies calls running concurrently on
\* one executor, the early-stop step of either call aborts no strategy
\* started by the other call and removes none of them from the registry.
C27_NoInterference ==
  [][ /\ (EarlyStopDue /\ callState' = "returned") => Untouched(other.plans)
      /\ (OtherEarlyStopDue /\ other'.callState = "returned") => Untouched(plans)
    ]_vars

\* C30: with the repository's own agents every data delegate rejects with
\* the 'Unknown task type' error of DataAgent.onExecute, so no strategy ever
\* invokes a model, training or evaluation delegate, every strategy that
\* has ended returned a failure result with that error, and every result of
\* executeStrategies has success = false.
C30_RepositoryDataPhaseFails ==
  agents = "repository" =>
    /\ \A s \in Ids :
         /\ \A k \in 1..Len(runs[s].calls) : runs[s].calls[k] = 1
         /\ Settled(runs[s]) =>
              /\ runs[s].status = "fulfilled"
              /\ ~runs[s].value.success
              /\ runs[s].value.error = "Unknown task type: preprocess"
    /\ \A i \in 1..Len(results) :
         /\ ~results[i].success
         /\ results[i].error = "Unknown task type: preprocess"

\* a call with the repository's agents has returned the results of two
\* strategies or more, one of them run in a second batch
C30_Witness ==
  /\ agents = "repository"
  /\ callState = "returned"
  /\ Len(results) >= 2
  /\ batchIndex = 2
  /\ \A i \in 1..Len(results) : runs[plans[i]].calls = <<1>>

\* a step in which initialize is called on an initialised agent
InitializeAgain ==
  /\ agent.initialized
  /\ \E c \in 1..MaxAgentCalls :
       /\ agent.calls[c] = NoAgentCall
       /\ agent'.calls[c].method = "initialize"

\* C29 as stated: when the calls made on an agent are execute calls and no
\* onInitialize invocation has failed, onInitialize has been invoked at
\* most once, however the calls overlap; and a call of initialize on an
\* initialised agent invokes no onInitialize and leaves the status as it is.
C29_InitializeAtMostOnce ==
  /\ []( ( /\ ~agent.onInitializeFailed
          /\ \A c \in 1..MaxAgentCalls : agent.calls[c].method # "initialize" )
        => agent.onInitializeCalls <= 1 )
  /\ [][InitializeAgain =>
          /\ agent'.onInitializeCalls = agent.onInitializeCalls
          /\ agent'.status = agent.status]_vars

=============================================================================
